---- MODULE Spec2Model ----
(***************************************************************************)
(* Model of src/app.py: a Streamlit page that filters a book catalog,      *)
(* keeps one chat history per selected book in the session state, and      *)
(* assembles a streamed assistant reply chunk by chunk.                    *)
(*                                                                         *)
(* One script run of main() is one action (BrowseRun, SubmitRun or         *)
(* LoadFailRun).  A run that starts a stream stays at the for loop of      *)
(* display_chat_interface (pc = "streaming"); each iteration of that loop, *)
(* its failure and its normal exhaustion are separate actions.             *)
(*                                                                         *)
(* Text is modelled as a sequence of tokens; concatenation of text is \o.  *)
(***************************************************************************)
EXTENDS Integers, Sequences, FiniteSets, TLC

\* ---------------------------------------------------------------- bounds
\* most rows of a table the filter is tried on
MaxRows == 2
\* longest Conversation a submit may still extend
MaxMsgs == 4
\* longest chunk sequence the collaborator delivers (the sequence is finite)
MaxChunks == 2

\* ------------------------------------------------------------- constants
None == "None"
\* st.chat_input returned nothing: a falsy prompt, modelled as the empty text
NoPrompt == <<>>

\* CATEGORIES (app.py 22-38), restricted to the sentinel, the categories of
\* the catalog below and one category that matches no record
CATEGORIES == <<"All Categories", "History", "Self-help", "Business">>

\* the table read from data.csv: columns Title, Category, Author, Summary
Catalog ==
  << [Title |-> "Atomic Habits", Category |-> "Self-help",
      Author |-> "Clear", Summary |-> <<"sumAtomicHabits">>],
     [Title |-> "Deep Work", Category |-> "Business",
      Author |-> "Newport", Summary |-> <<"sumDeepWork">>],
     [Title |-> "Digital Minimalism", Category |-> "Self-help",
      Author |-> "Newport", Summary |-> <<"sumDigitalMinimalism">>] >>

\* a Title cell left empty in data.csv: pandas reads it as NaN, which is
\* truthy and equal to nothing, itself included
NaN == "nan"

\* a data.csv one of whose rows has no title
CatalogBlankTitle ==
  Catalog \o << [Title |-> NaN, Category |-> "Business",
                 Author |-> "Clear", Summary |-> <<"sumUntitled">>] >>

\* pd.DataFrame(): the empty table load_data returns on failure
EmptyFrame == <<>>

\* texts the user can type into st.chat_input (never empty)
Prompts == { <<"What is the core idea?">> }

\* text deltas the collaborator can put in a chunk
Fragments == { <<"Once ">>, <<"upon">> }

\* a chunk either carries a content delta or has none (delta == {})
Chunks == { [has |-> TRUE, content |-> f] : f \in Fragments }
            \cup { [has |-> FALSE, content |-> <<>>] }

\* the cursor shown after the partial text while streaming
Cursor == <<"|">>

\* the fixed text around the summary in the system prompt
SysPre == <<"You are a knowledgeable assistant ... context for our discussion:">>
SysPost == <<"Provide thoughtful, relevant responses ...">>

\* ------------------------------------------------------------------ state
VARIABLES
  messages,         \* st.session_state.messages
  selected_book,    \* st.session_state.selected_book
  show_expander,    \* st.session_state.show_expander
  openai_model,     \* st.session_state.openai_model
  book_widget,      \* value of the "Select Book" selectbox in the last run
  df,               \* the table load_data returned in the last run
  pc,               \* where the last script run stopped; "streaming": at the for loop
  full_response,    \* local accumulator of display_chat_interface
  placeholder,      \* what message_placeholder shows
  surfaced,         \* the st.error raised in the last run, or "none"
  prompt,           \* the text st.chat_input returned in the last run, or NoPrompt
  pre,              \* history: messages when the last run read the chat input
  delivered,        \* history: the chunks the for loop has received, in order
  dropped,          \* history: how many messages line 181 discarded in the last run
  data_csv,         \* environment: the table stored in data.csv
  request,          \* the arguments of the last ChatCompletion.create call
  displayed,        \* the chat turns the loop of lines 88-91 rendered in the last run
  filter_view       \* FilterSpec only: the filters tried and the rows and options they gave

vars == << messages, selected_book, show_expander, openai_model,
           book_widget, df, pc,
           full_response, placeholder, surfaced, prompt, pre, delivered,
           dropped, data_csv, request, displayed, filter_view >>

\* ---------------------------------------------------------- pure helpers
Range(s) == { s[i] : i \in 1..Len(s) }

TitleList(frame) == [ i \in 1..Len(frame) |-> frame[i].Title ]

\* sorted(df['Author'].unique()) with the sentinel in front; as a set, the
\* order of the options does not matter to any run
Authors(frame) == {"All Authors"} \cup { frame[i].Author : i \in 1..Len(frame) }

\* variant: the author mask is applied to the whole table
FilteredDf_AuthorOnly(frame, category, author) ==
  LET byCat == IF category # "All Categories"
               THEN SelectSeq(frame, LAMBDA r : r.Category = category)
               ELSE frame
  IN  IF author # "All Authors"
      THEN SelectSeq(frame, LAMBDA r : r.Author = author)
      ELSE byCat

\* frame[mask] keeps the rows that pass the test, in frame order (SelectSeq)
FilteredDf(frame, category, author) ==
  LET byCat == IF category # "All Categories"
               THEN SelectSeq(frame, LAMBDA r : r.Category = category)
               ELSE frame
  IN  IF author # "All Authors"
      THEN SelectSeq(byCat, LAMBDA r : r.Author = author)
      ELSE byCat

\* a == b on title values (NaN == NaN is False)
TitleEq(a, b) == a # NaN /\ b # NaN /\ a = b

\* df[df['Title'] == selected_book] is empty, so .iloc[0] raises IndexError
LookupFails(frame, title) ==
  SelectSeq(frame, LAMBDA r : TitleEq(r.Title, title)) = <<>>

\* variant: iloc[0] taken on the unfiltered table
Lookup_FirstRow(frame, title) == frame[1]

\* df[df['Title'] == selected_book].iloc[0]
Lookup(frame, title) ==
  SelectSeq(frame, LAMBDA r : TitleEq(r.Title, title))[1]

\* variant: the reset leaves the list empty
initialize_chat_NoPrompt(book_summary) == <<>>

initialize_chat(book_summary) ==
  << [role |-> "system", content |-> SysPre \o book_summary \o SysPost] >>

\* variant: the active title is overwritten on every run
SelectedAfter_ClearOnEmpty(sel, book) ==
  IF ~TitleEq(sel, book) THEN book ELSE sel

\* session_state after "if selected_book: ..." (app.py 176-188)
SelectedAfter(sel, book) ==
  IF book # None /\ ~TitleEq(sel, book) THEN book ELSE sel

\* variant: the history is reset on every run that shows a book
MessagesAfterSelect_AlwaysReset(frame, sel, msgs, book) ==
  IF book # None
  THEN IF LookupFails(frame, book) THEN <<>>
       ELSE initialize_chat(Lookup(frame, book).Summary)
  ELSE msgs

\* variant: only the system prompt is replaced, the turns are kept
MessagesAfterSelect_KeepTurns(frame, sel, msgs, book) ==
  IF book # None /\ ~TitleEq(sel, book)
  THEN IF LookupFails(frame, book) THEN <<>>
       ELSE initialize_chat(Lookup(frame, book).Summary)
            \o (IF msgs = <<>> THEN <<>> ELSE Tail(msgs))
  ELSE msgs

\* session_state.messages after "if selected_book: ..." (app.py 176-188):
\* line 181 has emptied the list when the lookup of line 183 raises
MessagesAfterSelect(frame, sel, msgs, book) ==
  IF book # None /\ ~TitleEq(sel, book)
  THEN IF LookupFails(frame, book) THEN <<>>
       ELSE initialize_chat(Lookup(frame, book).Summary)
  ELSE msgs

\* variant: the user's message is not recorded
AppendUser_Dropped(msgs, text) == msgs

\* st.session_state.messages.append({"role": "user", "content": prompt})
AppendUser(msgs, text) == Append(msgs, [role |-> "user", content |-> text])

\* assistant_response: the stream object, or None when create() raised
assistant_response(started) == IF started THEN "stream" ELSE None

\* variant: the except branch returns None without st.error
ErrorOfCall_Silent(started) == "none"

\* the st.error of assistant_response's except branch
ErrorOfCall(started) == IF started THEN "none" ELSE "start"

\* no call was made in the run
NoRequest == [model |-> "", messages |-> <<>>]

\* variant: the system prompt is left out of the request
CallArgs_NoSystem(msgs, model) == [model |-> model, messages |-> Tail(msgs)]

\* ChatCompletion.create(model=model, messages=messages, stream=True)
CallArgs(msgs, model) == [model |-> model, messages |-> msgs]

\* variant: the loop renders every message
DisplayedHistory_All(msgs) == msgs

\* for message in messages: if message["role"] != "system": render it
DisplayedHistory(msgs) == SelectSeq(msgs, LAMBDA m : m.role # "system")

\* no filter has been tried
NoFilterView ==
  [applied |-> FALSE, category |-> "All Categories", author |-> "All Authors",
   rows |-> <<>>, options |-> <<>>]

\* chunk.choices[0].delta.get("content", "")
ChunkContent(chunk) == IF chunk.has THEN chunk.content ELSE <<>>

\* variant: a run may start while another is at the for loop
Idle_Always == TRUE

\* the script is not running: the render surface accepts the next event
Idle == pc # "streaming"

\* ------------------------------------------------------------------- Init
Init ==
  /\ messages = <<>>
  /\ selected_book = None
  /\ show_expander = FALSE
  /\ openai_model = "gpt-4o"
  /\ book_widget = None
  /\ df = EmptyFrame
  /\ pc = "start"
  /\ full_response = <<>>
  /\ placeholder = <<>>
  /\ surfaced = "none"
  /\ prompt = NoPrompt
  /\ pre = <<>>
  /\ delivered = <<>>
  /\ dropped = 0
  /\ data_csv = Catalog
  /\ request = NoRequest
  /\ displayed = <<>>
  /\ filter_view = NoFilterView

\* ---------------------------------------------------------------- actions
\* a script run in which load_data finds no readable data.csv: main warns
\* and returns before any widget or session state is touched
LoadFailRun ==
  /\ Idle
  /\ df' = EmptyFrame
  /\ surfaced' = "load"
  /\ pc' = "returned_no_data"
  /\ prompt' = NoPrompt
  /\ pre' = messages
  /\ full_response' = <<>>
  /\ placeholder' = <<>>
  /\ delivered' = <<>>
  /\ dropped' = 0
  /\ request' = NoRequest
  /\ displayed' = <<>>
  /\ UNCHANGED << messages, selected_book, show_expander, openai_model,
                  book_widget, data_csv, filter_view >>

\* what the Select Book box can return in a run on frame: for each value of
\* the two filter boxes (locals selected_category, selected_author of main)
\* one of the options they leave, or None when they leave no option
Offered(frame) ==
  UNION { LET filtered == FilteredDf(frame, category, author)
          IN  IF filtered = <<>> THEN {None}
              ELSE Range(TitleList(filtered)) :
            category \in Range(CATEGORIES), author \in Authors(frame) }

\* one script run of main() with a loaded table: the widget values of the
\* run are the two filters (see Offered), book (local selected_book, None
\* when the filtered list is empty), button (Show Books List clicked) and
\* text (chat input, NoPrompt if nothing was submitted); started tells
\* whether ChatCompletion.create returned
Main(book, button, text, started) ==
  LET sel1  == SelectedAfter(selected_book, book)
      msgs1 == MessagesAfterSelect(data_csv, selected_book, messages, book)
      changed == book # None /\ ~TitleEq(selected_book, book)
      response == assistant_response(started)
  IN
  /\ Idle
  /\ book \in Offered(data_csv)
  /\ df' = data_csv
  /\ book_widget' = book
  /\ show_expander' = IF button THEN ~show_expander ELSE show_expander
  /\ selected_book' = sel1
  /\ dropped' = IF changed THEN Len(messages) ELSE 0
  /\ pre' = msgs1
  /\ full_response' = <<>>
  /\ delivered' = <<>>
  /\ placeholder' = <<>>
  /\ IF book = None
     THEN /\ messages' = msgs1
          /\ prompt' = NoPrompt
          /\ surfaced' = "none"
          /\ request' = NoRequest
          /\ displayed' = <<>>
          /\ pc' = "done_no_book"
     ELSE IF changed /\ LookupFails(data_csv, book)
     THEN \* line 183 raises IndexError out of main: the run ends there
          /\ messages' = msgs1
          /\ prompt' = NoPrompt
          /\ surfaced' = "uncaught"
          /\ request' = NoRequest
          /\ displayed' = <<>>
          /\ pc' = "raised_lookup"
     ELSE IF text = NoPrompt
     THEN /\ messages' = msgs1
          /\ prompt' = NoPrompt
          /\ surfaced' = "none"
          /\ request' = NoRequest
          /\ displayed' = DisplayedHistory(msgs1)
          /\ pc' = "done_no_prompt"
     ELSE /\ Len(msgs1) < MaxMsgs
          /\ messages' = AppendUser(msgs1, text)
          /\ prompt' = text
          /\ surfaced' = ErrorOfCall(started)
          /\ displayed' = DisplayedHistory(msgs1)
          /\ request' = CallArgs(AppendUser(msgs1, text), openai_model)
          /\ pc' = IF response # None THEN "streaming" ELSE "done_no_response"
  /\ UNCHANGED << openai_model, data_csv, filter_view >>

\* a run without a chat submission
BrowseRun ==
  \E book \in Range(TitleList(data_csv)) \cup {None}, button \in BOOLEAN :
       Main(book, button, NoPrompt, FALSE)

\* a run in which the user submitted text to the chat input
SubmitRun ==
  \E book \in Range(TitleList(data_csv)), button \in BOOLEAN,
     text \in Prompts, started \in BOOLEAN :
       Main(book, button, text, started)

\* variant: the new fragment is put in front of the accumulator
StreamChunk_Prepend ==
  /\ pc = "streaming"
  /\ Len(delivered) < MaxChunks
  /\ \E chunk \in Chunks :
       /\ delivered' = Append(delivered, chunk)
       /\ full_response' = ChunkContent(chunk) \o full_response
       /\ placeholder' = (ChunkContent(chunk) \o full_response) \o Cursor
  /\ UNCHANGED << messages, selected_book, show_expander, openai_model,
                  book_widget, df, pc,
                  surfaced, prompt, pre, dropped, data_csv, request, displayed, filter_view >>

\* one iteration of "for chunk in response"
StreamChunk ==
  /\ pc = "streaming"
  /\ Len(delivered) < MaxChunks
  /\ \E chunk \in Chunks :
       /\ delivered' = Append(delivered, chunk)
       /\ full_response' = full_response \o ChunkContent(chunk)
       /\ placeholder' = (full_response \o ChunkContent(chunk)) \o Cursor
  /\ UNCHANGED << messages, selected_book, show_expander, openai_model,
                  book_widget, df, pc,
                  surfaced, prompt, pre, dropped, data_csv, request, displayed, filter_view >>

\* variant: the except branch commits the accumulator as the reply
StreamFail_Commit ==
  /\ pc = "streaming"
  /\ surfaced' = "stream"
  /\ messages' = Append(messages, [role |-> "assistant", content |-> full_response])
  /\ pc' = "done_except"
  /\ UNCHANGED << selected_book, show_expander, openai_model,
                  book_widget, df,
                  full_response, placeholder, prompt, pre, delivered,
                  dropped, data_csv, request, displayed, filter_view >>

\* variant: the except branch starts the stream again instead of ending
StreamFail_Retry ==
  /\ pc = "streaming"
  /\ surfaced' = "stream"
  /\ full_response' = <<>>
  /\ placeholder' = <<>>
  /\ delivered' = <<>>
  /\ UNCHANGED << messages, selected_book, show_expander, openai_model,
                  book_widget, df, pc,
                  prompt, pre, dropped, data_csv, request, displayed, filter_view >>

\* the iterator raises: the except branch reports the error and the run ends
StreamFail ==
  /\ pc = "streaming"
  /\ surfaced' = "stream"
  /\ pc' = "done_except"
  /\ UNCHANGED << messages, selected_book, show_expander, openai_model,
                  book_widget, df,
                  full_response, placeholder, prompt, pre, delivered,
                  dropped, data_csv, request, displayed, filter_view >>

\* variant: what the placeholder shows is committed
StreamEnd_CommitPlaceholder ==
  /\ pc = "streaming"
  /\ placeholder' = full_response
  /\ messages' = Append(messages, [role |-> "assistant", content |-> placeholder])
  /\ pc' = "done_committed"
  /\ UNCHANGED << selected_book, show_expander, openai_model,
                  book_widget, df,
                  full_response, surfaced, prompt, pre, delivered, dropped,
                  data_csv, request, displayed, filter_view >>

\* variant: the reply takes the place of the last message
StreamEnd_Overwrite ==
  /\ pc = "streaming"
  /\ placeholder' = full_response
  /\ messages' = [messages EXCEPT ![Len(messages)] =
                    [role |-> "assistant", content |-> full_response]]
  /\ pc' = "done_committed"
  /\ UNCHANGED << selected_book, show_expander, openai_model,
                  book_widget, df,
                  full_response, surfaced, prompt, pre, delivered, dropped,
                  data_csv, request, displayed, filter_view >>

\* the iterator is exhausted: final render and commit of the reply
StreamEnd ==
  /\ pc = "streaming"
  /\ placeholder' = full_response
  /\ messages' = Append(messages, [role |-> "assistant", content |-> full_response])
  /\ pc' = "done_committed"
  /\ UNCHANGED << selected_book, show_expander, openai_model,
                  book_widget, df,
                  full_response, surfaced, prompt, pre, delivered, dropped,
                  data_csv, request, displayed, filter_view >>

StreamStep == StreamChunk \/ StreamFail \/ StreamEnd

Next ==
  \/ LoadFailRun
  \/ BrowseRun
  \/ SubmitRun
  \/ StreamChunk
  \/ StreamFail
  \/ StreamEnd

Spec == Init /\ [][Next]_vars

\* the same program started on a data.csv with an untitled row
BlankTitleInit ==
  /\ messages = <<>>
  /\ selected_book = None
  /\ show_expander = FALSE
  /\ openai_model = "gpt-4o"
  /\ book_widget = None
  /\ df = EmptyFrame
  /\ pc = "start"
  /\ full_response = <<>>
  /\ placeholder = <<>>
  /\ surfaced = "none"
  /\ prompt = NoPrompt
  /\ pre = <<>>
  /\ delivered = <<>>
  /\ dropped = 0
  /\ data_csv = CatalogBlankTitle
  /\ request = NoRequest
  /\ displayed = <<>>
  /\ filter_view = NoFilterView

BlankTitleSpec == BlankTitleInit /\ [][Next]_vars

\* ---------------------------------------------- the filter on its own
\* rows a table can hold
FilterRecords ==
  { [Title |-> t, Category |-> c, Author |-> a, Summary |-> <<"sum">>] :
      t \in {"Atomic Habits", "Deep Work"},
      c \in {"Self-help", "Business"},
      a \in {"Clear", "Newport"} }

\* the non-empty tables of at most MaxRows rows (main returns on an empty one)
FilterCatalogs == UNION { [1..n -> FilterRecords] : n \in 1..MaxRows }

FilterInit ==
  /\ messages = <<>>
  /\ selected_book = None
  /\ show_expander = FALSE
  /\ openai_model = "gpt-4o"
  /\ book_widget = None
  /\ df = EmptyFrame
  /\ pc = "start"
  /\ full_response = <<>>
  /\ placeholder = <<>>
  /\ surfaced = "none"
  /\ prompt = NoPrompt
  /\ pre = <<>>
  /\ delivered = <<>>
  /\ dropped = 0
  /\ request = NoRequest
  /\ displayed = <<>>
  /\ filter_view = NoFilterView
  /\ data_csv \in FilterCatalogs

\* lines 151-165 of main for one choice of the two filter widgets
ApplyFilter ==
  \E category \in Range(CATEGORIES), author \in Authors(data_csv) :
     LET filtered == FilteredDf(data_csv, category, author)
     IN  /\ filter_view' = [applied |-> TRUE, category |-> category,
                            author |-> author, rows |-> filtered,
                            options |-> TitleList(filtered)]
         /\ UNCHANGED << messages, selected_book, show_expander, openai_model,
                         book_widget, df, pc, full_response, placeholder,
                         surfaced, prompt, pre, delivered, dropped, data_csv,
                         request, displayed >>

FilterNext == ApplyFilter

FilterSpec == FilterInit /\ [][FilterNext]_vars

\* the for loop keeps iterating while the collaborator's finite sequence
\* yields, fails or ends
FairSpec == Init /\ [][Next]_vars /\ WF_vars(StreamStep)

TypeOK ==
  /\ pc \in {"start", "returned_no_data", "done_no_book", "done_no_prompt",
             "raised_lookup",
             "done_no_response", "streaming", "done_committed", "done_except"}
  /\ surfaced \in {"none", "load", "start", "stream", "uncaught"}
  /\ Len(messages) <= MaxMsgs + 1
  /\ Len(delivered) <= MaxChunks
  /\ dropped \in 0..(MaxMsgs + 1)

\* ------------------------------------------------- vocabulary of the claims
Last(s) == s[Len(s)]

Roles(msgs) == [ i \in 1..Len(msgs) |-> msgs[i].role ]

\* text sub occurs in text as a contiguous part
Contains(text, sub) ==
  \E i \in 1..(Len(text) - Len(sub) + 1) :
     SubSeq(text, i, i + Len(sub) - 1) = sub

\* the summary of the record titled t (titles are unique in Catalog)
SummaryOf(t) == (CHOOSE r \in Range(Catalog) : r.Title = t).Summary

RECURSIVE ConcatText(_)
\* the texts of the chunks cs, concatenated in delivery order
ConcatText(cs) ==
  IF cs = <<>> THEN <<>>
  ELSE (IF Head(cs).has THEN Head(cs).content ELSE <<>>) \o ConcatText(Tail(cs))

UserMsg(text) == [role |-> "user", content |-> text]
AssistantMsg(text) == [role |-> "assistant", content |-> text]

\* a step that is a run of main() with a loaded table
MainRan == Idle /\ pc' \notin {"returned_no_data", "start"}

\* ------------------------------------------------------------------ claims
\* C1: if the chunk sequence fails after delivering one or more fragments,
\* then once the exchange has ended the last message is an assistant message
\* holding the concatenation of the delivered fragments, and an error has
\* been surfaced.  The code's except branch commits nothing.
C1_PartialCommitted ==
  (pc = "done_except" /\ \E i \in 1..Len(delivered) : delivered[i].has)
    => /\ Last(messages) = AssistantMsg(ConcatText(delivered))
       /\ surfaced = "stream"

\* C2 (as stated): the messages after the first alternate user, assistant,
\* user, assistant, ...; never two consecutive user messages.
C2_StrictAlternation ==
  \A i \in 2..Len(messages) :
     messages[i].role = IF i % 2 = 0 THEN "user" ELSE "assistant"

\* C2 (amended): every message after the first is a user or an assistant
\* message, the first of them is a user message, and every assistant message
\* immediately follows a user message.
C2_AssistantFollowsUser ==
  \A i \in 2..Len(messages) :
     /\ messages[i].role \in {"user", "assistant"}
     /\ messages[i].role = "assistant" => (i > 2 /\ messages[i-1].role = "user")

C2_Witness ==
  /\ Len(messages) >= 4
  /\ SubSeq(Roles(messages), 1, 4) = <<"system", "user", "user", "assistant">>

\* C3: a run whose selected title is already the active title leaves the
\* active title and the whole Conversation as they were.
C3_ReselectIsNoOp ==
  [][ (MainRan /\ book_widget' # None /\ book_widget' = selected_book)
        => /\ selected_book' = selected_book
           /\ pre' = messages
           /\ (prompt' = NoPrompt => messages' = messages) ]_vars

C3_Witness ==
  /\ pc = "done_no_prompt"
  /\ book_widget = selected_book
  /\ Len(messages) >= 3
  /\ pre = messages

\* C4: a run whose selected title differs from the active title leaves,
\* right after the change, exactly one message: the system message that
\* embeds the new title's summary.
C4_ChangeResets ==
  [][ (MainRan /\ book_widget' # None /\ book_widget' # selected_book)
        => /\ selected_book' = book_widget'
           /\ Len(pre') = 1
           /\ pre'[1].role = "system"
           /\ Contains(pre'[1].content, SummaryOf(book_widget'))
           /\ (prompt' = NoPrompt => messages' = pre') ]_vars

C4_Witness ==
  /\ pc = "done_no_prompt"
  /\ dropped >= 3
  /\ Len(messages) = 1
  /\ messages[1].role = "system"

\* C5: a non-empty Conversation starts with a system message that embeds
\* the summary of the active title and of no other book; while the
\* collaborator is streaming, the book on screen is the active title.
C5_SystemMatchesActive ==
  messages # <<>> =>
    /\ selected_book # None
    /\ messages[1].role = "system"
    /\ Contains(messages[1].content, SummaryOf(selected_book))
    /\ \A r \in Range(Catalog) :
         r.Title # selected_book => ~Contains(messages[1].content, r.Summary)
    /\ (pc = "streaming" => book_widget = selected_book)

C5_Witness ==
  /\ pc = "streaming"
  /\ dropped >= 3
  /\ selected_book = "Deep Work"

\* C6: after a submit whose call started and whose chunk sequence was
\* exhausted normally, the Conversation is the one before the submit, then
\* the user's message, then an assistant message holding the concatenation
\* of the delivered chunk texts.
C6_CompletedExchange ==
  pc = "done_committed" =>
    /\ prompt # NoPrompt
    /\ messages = pre \o << UserMsg(prompt), AssistantMsg(ConcatText(delivered)) >>

C6_Witness ==
  /\ pc = "done_committed"
  /\ Len(pre) >= 3
  /\ Last(messages).content = <<"Once ", "upon">>

\* C7: if the chunk sequence fails before any text fragment was delivered,
\* no assistant message is appended (the last message is the user's message
\* just submitted) and an error is surfaced.
C7_FailBeforeFirstChunk ==
  (pc = "done_except" /\ \A i \in 1..Len(delivered) : ~delivered[i].has) =>
    /\ messages = Append(pre, UserMsg(prompt))
    /\ surfaced = "stream"

C7_Witness ==
  /\ pc = "done_except"
  /\ delivered = <<>>
  /\ Last(messages).role = "user"

\* C8: if the collaborator call fails to start, an error is surfaced and
\* the Conversation is the one before the submit plus the user's message.
C8_StartFailure ==
  pc = "done_no_response" =>
    /\ surfaced = "start"
    /\ prompt # NoPrompt
    /\ messages = Append(pre, UserMsg(prompt))

C8_Witness ==
  /\ pc = "done_no_response"
  /\ Len(pre) >= 3
  /\ Len(messages) = Len(pre) + 1

\* C9: after a failed load a built-in fallback catalog is in use, so the
\* run does not end without a table.  The code returns an empty table and
\* main returns.
C9_FallbackCatalog ==
  surfaced = "load" => (df # EmptyFrame /\ pc # "returned_no_data")

\* a further submit for the same book, and a selection of another book
ResubmitSame == SubmitRun /\ selected_book' = selected_book
SelectOther == BrowseRun /\ selected_book' # selected_book

\* C10: every exchange that entered Streaming returns to awaiting input, and
\* after a start failure or a stream failure a further submit (while the
\* Conversation is below MaxMsgs) and a further selectBook are enabled.
C10_ExchangeEnds ==
  /\ (pc = "streaming") ~> Idle
  /\ [] ( pc \in {"done_no_response", "done_except"} =>
            /\ ENABLED SelectOther
            /\ (Len(messages) < MaxMsgs => ENABLED ResubmitSame) )

C10_Witness ==
  /\ pc = "done_except"
  /\ delivered # <<>>
  /\ surfaced = "stream"

\* C11: the call made by a submit gets the whole Conversation (the system
\* message of the active book first, the earlier turns in their order, the
\* new user message last) and the session's model identifier.
C11_FullConversationSent ==
  /\ (prompt # NoPrompt) = (request # NoRequest)
  /\ request # NoRequest =>
       /\ request.messages = Append(pre, UserMsg(prompt))
       /\ request.messages = SubSeq(messages, 1, Len(request.messages))
       /\ request.messages[1].role = "system"
       /\ Contains(request.messages[1].content, SummaryOf(selected_book))
       /\ request.model = openai_model

C11_Witness ==
  /\ pc = "streaming"
  /\ Len(request.messages) >= 4
  /\ request.model = "gpt-4o"

\* C12: the rows kept by the two filters are the rows that match both (a
\* sentinel matches every row) and the options are their titles; with both
\* sentinels the table is kept whole, and the result is the intersection of
\* the two single-filter results.
C12_FiltersCompose ==
  filter_view.applied =>
    LET c == filter_view.category
        a == filter_view.author
        matching == { r \in Range(data_csv) :
                        /\ (c = "All Categories" \/ r.Category = c)
                        /\ (a = "All Authors" \/ r.Author = a) }
    IN  /\ Range(filter_view.rows) = matching
        /\ Range(filter_view.options) = { r.Title : r \in matching }
        /\ Len(filter_view.options) = Len(filter_view.rows)
        /\ (c = "All Categories" /\ a = "All Authors") => filter_view.rows = data_csv
        /\ Range(filter_view.rows) =
             Range(FilteredDf(data_csv, c, "All Authors"))
               \cap Range(FilteredDf(data_csv, "All Categories", a))

C12_Witness ==
  /\ filter_view.applied
  /\ filter_view.category # "All Categories"
  /\ filter_view.author # "All Authors"
  /\ Len(filter_view.rows) = 1
  /\ Len(data_csv) = 2
  /\ data_csv[1].Category = data_csv[2].Category
  /\ data_csv[1].Author # data_csv[2].Author

C14_FailedLookupNoMutation ==
  [][ pc' = "raised_lookup" =>
        (messages' = messages /\ selected_book' = selected_book) ]_vars

RECURSIVE NonSystem(_)
\* the messages of msgs whose role is not system, in order
NonSystem(msgs) ==
  IF msgs = <<>> THEN <<>>
  ELSE IF Head(msgs).role = "system" THEN NonSystem(Tail(msgs))
       ELSE <<Head(msgs)>> \o NonSystem(Tail(msgs))

\* the last run got as far as display_chat_interface
ChatShown ==
  pc \in {"done_no_prompt", "done_no_response", "streaming",
          "done_committed", "done_except"}

\* C15: the turns rendered from the history are the non-system messages of
\* the Conversation in their order: the system message is not rendered and
\* every user and assistant message is rendered once.
C15_DisplayedNonSystem ==
  ChatShown =>
    /\ displayed = NonSystem(pre)
    /\ \A i \in 1..Len(displayed) : displayed[i].role \in {"user", "assistant"}
    /\ Len(displayed) = Len(pre) - 1
    /\ \A i \in 1..Len(displayed) : displayed[i] = pre[i + 1]

C15_Witness ==
  /\ pc = "done_no_prompt"
  /\ Len(displayed) >= 3
  /\ displayed[2].role = "assistant"

\* C16: the cursor is shown after every fragment but is never part of a
\* committed reply, which is the accumulator alone; a chunk without a text
\* delta leaves the accumulator as it was and the stream goes on.
C16_CursorDisplayOnly ==
  /\ [] ( \A i \in 1..Len(messages) :
            messages[i].role = "assistant" => ~Contains(messages[i].content, Cursor) )
  /\ [] ( pc = "done_committed" => Last(messages).content = full_response )
  /\ [] ( (pc = "streaming" /\ delivered # <<>>) => placeholder = full_response \o Cursor )
  /\ [][ (pc = "streaming" /\ Len(delivered') = Len(delivered) + 1
                           /\ ~Last(delivered').has)
           => (full_response' = full_response /\ pc' = "streaming"
                                              /\ messages' = messages) ]_vars

C16_Witness ==
  /\ pc = "done_committed"
  /\ Len(delivered) = 2
  /\ ~delivered[1].has
  /\ delivered[2].has
  /\ Last(messages).content = delivered[2].content

IsPrefix(a, b) == Len(a) <= Len(b) /\ SubSeq(b, 1, Len(a)) = a

\* C17: a step that does not change the active title leaves the former
\* Conversation as a prefix of the new one.
C17_AppendOnly ==
  [][ selected_book' = selected_book => IsPrefix(messages, messages') ]_vars

C17_Witness ==
  /\ pc = "done_except"
  /\ dropped = 0
  /\ Len(pre) >= 3
  /\ messages = Append(pre, UserMsg(prompt))

\* C18: a text is submitted only in a run that shows a book; the
\* Conversation is empty exactly when no book was ever selected, and
\* otherwise holds one system message, the first one.
C18_OneLeadingSystem ==
  /\ prompt # NoPrompt => book_widget # None
  /\ (messages = <<>>) = (selected_book = None)
  /\ messages # <<>> =>
       /\ messages[1].role = "system"
       /\ \A i \in 2..Len(messages) : messages[i].role # "system"

C18_Witness ==
  /\ Len(messages) >= 5
  /\ messages[5].role = "assistant"
  /\ messages[1].role = "system"

\* C19: a run of main changes the active title or the Conversation it
\* found only if its selected title is not empty and differs from the
\* active title, whatever the filters and the expander button; a run
\* whose filters match no book leaves both as they were.
C19_FiltersFrame ==
  [][ MainRan =>
        /\ (selected_book' # selected_book \/ pre' # messages)
             => (book_widget' # None /\ book_widget' # selected_book)
        /\ prompt' = NoPrompt => messages' = pre'
        /\ book_widget' = None
             => (messages' = messages /\ selected_book' = selected_book) ]_vars

C19_Witness ==
  /\ pc = "done_no_book"
  /\ show_expander
  /\ Len(messages) >= 3
  /\ selected_book # None
====
